---- MODULE Spec2Model ----
(***************************************************************************)
(* State-machine model of the OCRPRO.XYZ server (server/routes.ts):        *)
(*   - the Stripe webhook handler that grants one-day entitlements,        *)
(*   - the access gate and the POST /api/ocr handler,                      *)
(*   - the bounded poll loop pollForResult.                                *)
(* and of the combine utility of the client (client/src/pages/home.tsx).   *)
(* Every handler is cut into one action per stretch of synchronous code    *)
(* between two awaits, so that other handlers and the clock interleave     *)
(* exactly where the event loop lets them.                                 *)
(***************************************************************************)
EXTENDS Integers, Sequences, FiniteSets, TLC

VARIABLES
    now,        \* wall clock (new Date()), in ticks of 1/TicksPerDay day
    env,        \* process.env: which secrets are configured
    payments,   \* the payments table, rows in insertion order
    wh,         \* one record per webhook handler execution slot
    deliveries, \* number of webhook requests received so far
    req,        \* the POST /api/ocr request in progress and its handler's locals
    uploads,    \* POST /api/ocr requests handled side by side, one record per slot
    jobs,       \* the recognition service: the handles it issued and who used them
    ui,         \* the combine utility of the home page (React component state)
    access      \* the GET /api/access-status request in progress

vars == <<now, env, payments, wh, deliveries, req, uploads, jobs, ui, access>>

----------------------------------------------------------------------------
(* Bounds of the model *)

TicksPerDay == 2
MaxTime == 3
MaxDeliveries == 3
MinLatency == 1
MaxSlowReplies == 4

(* Program constants *)

GRANT_DAYS == 1
MAX_POLLING_ATTEMPTS == 120
POLLING_INTERVAL == 1000
STATUS_TIMEOUT == 30000

Users == {"u1", "u2"}
Sessions == {"sess_123", "sess_456"}
Handlers == {"h1", "h2"}

NoUser == "none"
Times == 0..(MaxTime + GRANT_DAYS * TicksPerDay)

----------------------------------------------------------------------------
(* The payments table *)

\* A row as the webhook handler builds it: values({userId, stripeSessionId,
\* stripeCustomerId, expiresAt}); the customer id is written and never read.
\* Faulty variant: the two key columns exchanged.
NewPaymentSwapped(userId, sessionId, expiresAt) ==
    [userId |-> sessionId, stripeSessionId |-> userId, expiresAt |-> expiresAt]

NewPayment(userId, sessionId, expiresAt) ==
    [userId |-> userId, stripeSessionId |-> sessionId, expiresAt |-> expiresAt]

\* select().from(payments).where(eq(payments.stripeSessionId, session.id)).limit(1):
\* the rows the query can return (limit 1 without ORDER BY: any one match).
SelectBySession(rows, sessionId) ==
    {<<rows[i]>> : i \in {j \in 1..Len(rows) : rows[j].stripeSessionId = sessionId}}

\* The result set of a limit(1) query as the handler sees it: one of the
\* matching rows, or the empty array.
QueryResults(matches) == IF matches = {} THEN {<<>>} ELSE matches

\* The storage layer rejects a second row with the same session identifier.
\* Faulty variant: no constraint.
NoSessionConstraint(rows, row) == FALSE

ViolatesSessionUnique(rows, row) ==
    \E i \in 1..Len(rows) : rows[i].stripeSessionId = row.stripeSessionId

\* Faulty variant: the date is stored as read, the day is not added.
GrantExpiryToday(t) == t

\* expiresAt = new Date(); expiresAt.setDate(expiresAt.getDate() + 1): the
\* same time of day on the next calendar day, taken as GRANT_DAYS whole days.
GrantExpiry(t) == t + GRANT_DAYS * TicksPerDay

----------------------------------------------------------------------------
(* POST /api/stripe-webhook *)

\* What stripe.webhooks.constructEvent returns once the signature verifies.
Events ==
    [type : {"checkout.session.completed"}, sid : Sessions, userId : Users \cup {NoUser}]
    \cup {[type |-> "other", sid |-> s, userId |-> NoUser] : s \in {"sess_123"}}

NoEvent == [type |-> "none", sid |-> "none", userId |-> NoUser]
NoRow == [userId |-> NoUser, stripeSessionId |-> "none", expiresAt |-> 0]

\* The transport-level shape of a webhook request: whether the
\* stripe-signature header is present, whether express kept the raw body,
\* whether the signature verifies, and the payload. A request that fails one
\* of the three tests carries any payload; one is enough, it is never read.
Deliveries ==
    LET e == [type |-> "checkout.session.completed", sid |-> "sess_123", userId |-> "u1"] IN
    [sig : {TRUE}, rawBody : {TRUE}, sigValid : {TRUE}, event : Events]
    \cup {[sig |-> FALSE, rawBody |-> TRUE, sigValid |-> TRUE, event |-> e],
          [sig |-> TRUE, rawBody |-> FALSE, sigValid |-> TRUE, event |-> e],
          [sig |-> TRUE, rawBody |-> TRUE, sigValid |-> FALSE, event |-> e]}

IdleHandler == [pc |-> "idle", event |-> NoEvent, row |-> NoRow, status |-> 0, log |-> "none"]

HandlerFree(h) == wh[h].pc \in {"idle", "rejected", "acked", "crashed"}

\* Lines 247-278: the synchronous prefix of the handler, up to the first await.
\* Faulty variant: the outcome of the signature verification is ignored.
WebhookReceiveUnverified(h, d) ==
    /\ HandlerFree(h)
    /\ deliveries < MaxDeliveries
    /\ deliveries' = deliveries + 1
    /\ IF ~d.sig \/ ~env.webhookSecret
         THEN wh' = [wh EXCEPT ![h] = [IdleHandler EXCEPT !.pc = "rejected", !.status = 400]]
       ELSE IF ~d.rawBody
         THEN wh' = [wh EXCEPT ![h] = [IdleHandler EXCEPT !.pc = "rejected", !.status = 400]]
       ELSE IF d.event.type = "checkout.session.completed" /\ d.event.userId # NoUser
         THEN wh' = [wh EXCEPT ![h] = [IdleHandler EXCEPT !.pc = "awaitSelect", !.event = d.event]]
       ELSE wh' = [wh EXCEPT ![h] =
                      [IdleHandler EXCEPT !.pc = "acked", !.event = d.event, !.status = 200]]
    /\ UNCHANGED <<now, env, payments, req, uploads, jobs, ui, access>>

\* Faulty variant: the insert path is taken without a user id in the metadata.
WebhookReceiveAnyUser(h, d) ==
    /\ HandlerFree(h)
    /\ deliveries < MaxDeliveries
    /\ deliveries' = deliveries + 1
    /\ IF ~d.sig \/ ~env.webhookSecret
         THEN wh' = [wh EXCEPT ![h] = [IdleHandler EXCEPT !.pc = "rejected", !.status = 400]]
       ELSE IF ~d.rawBody \/ ~d.sigValid
         THEN wh' = [wh EXCEPT ![h] = [IdleHandler EXCEPT !.pc = "rejected", !.status = 400]]
       ELSE IF d.event.type = "checkout.session.completed"
         THEN wh' = [wh EXCEPT ![h] = [IdleHandler EXCEPT !.pc = "awaitSelect", !.event = d.event]]
       ELSE wh' = [wh EXCEPT ![h] =
                      [IdleHandler EXCEPT !.pc = "acked", !.event = d.event, !.status = 200]]
    /\ UNCHANGED <<now, env, payments, req, uploads, jobs, ui, access>>

WebhookReceive(h, d) ==
    /\ HandlerFree(h)
    /\ deliveries < MaxDeliveries
    /\ deliveries' = deliveries + 1
    /\ IF ~d.sig \/ ~env.webhookSecret
         THEN wh' = [wh EXCEPT ![h] = [IdleHandler EXCEPT !.pc = "rejected", !.status = 400]]
       ELSE IF ~d.rawBody \/ ~d.sigValid
         THEN wh' = [wh EXCEPT ![h] = [IdleHandler EXCEPT !.pc = "rejected", !.status = 400]]
       ELSE IF d.event.type = "checkout.session.completed" /\ d.event.userId # NoUser
         THEN wh' = [wh EXCEPT ![h] = [IdleHandler EXCEPT !.pc = "awaitSelect", !.event = d.event]]
       ELSE wh' = [wh EXCEPT ![h] =
                      [IdleHandler EXCEPT !.pc = "acked", !.event = d.event, !.status = 200]]
    /\ UNCHANGED <<now, env, payments, req, uploads, jobs, ui, access>>

\* Lines 274-295: the select resolves; either the insert is issued or the
\* handler logs "already processed" and acknowledges.
WebhookSelectResult(h) ==
    /\ wh[h].pc = "awaitSelect"
    /\ \E existingPayment \in QueryResults(SelectBySession(payments, wh[h].event.sid)) :
         IF Len(existingPayment) = 0
           THEN wh' = [wh EXCEPT ![h].pc = "awaitInsert",
                                 ![h].row = NewPayment(wh[h].event.userId, wh[h].event.sid,
                                                       GrantExpiry(now))]
           ELSE wh' = [wh EXCEPT ![h].pc = "acked", ![h].status = 200,
                                 ![h].log = "already processed"]
    /\ UNCHANGED <<now, env, payments, deliveries, req, uploads, jobs, ui, access>>

\* Lines 285-299: the insert resolves or is rejected by the storage layer; a
\* rejection is not caught by the handler, which then sends no response.
WebhookInsertResult(h) ==
    /\ wh[h].pc = "awaitInsert"
    /\ IF ViolatesSessionUnique(payments, wh[h].row)
         THEN /\ wh' = [wh EXCEPT ![h].pc = "crashed", ![h].row = NoRow]
              /\ UNCHANGED payments
         ELSE /\ payments' = Append(payments, wh[h].row)
              /\ wh' = [wh EXCEPT ![h].pc = "acked", ![h].status = 200,
                                  ![h].row = NoRow, ![h].log = "access granted"]
    /\ UNCHANGED <<now, env, deliveries, req, uploads, jobs, ui, access>>

\* Lines 274-278: the select is rejected by the storage layer (connection
\* lost, statement timeout); the handler has no catch around it and sends no
\* response.
WebhookSelectRejected(h) ==
    /\ wh[h].pc = "awaitSelect"
    /\ wh' = [wh EXCEPT ![h].pc = "crashed"]
    /\ UNCHANGED <<now, env, payments, deliveries, req, uploads, jobs, ui, access>>

\* Lines 285-290: the insert is rejected for a reason other than the session
\* constraint; nothing is written and no response is sent.
WebhookInsertRejected(h) ==
    /\ wh[h].pc = "awaitInsert"
    /\ wh' = [wh EXCEPT ![h].pc = "crashed", ![h].row = NoRow]
    /\ UNCHANGED <<now, env, payments, deliveries, req, uploads, jobs, ui, access>>

\* Time passes.
Tick ==
    /\ now < MaxTime
    /\ now' = now + 1
    /\ UNCHANGED <<env, payments, wh, deliveries, req, uploads, jobs, ui, access>>

----------------------------------------------------------------------------
(* The recognition service's replies and the result normalizer *)

Undefined == "undefined"

\* A line of recognised text is a sequence of characters; only the classes of
\* character that the normalizer tells apart are kept distinct.
Whitespace == {" ", "\n"}

NoData == [status |-> "none", hasResults |-> FALSE, readResults |-> <<>>]

Line(chars) == [text |-> chars]
Page(lines) == [hasLines |-> TRUE, lines |-> lines]

\* analyzeResult.readResults of a finished job.
ReadResults ==
    { <<>>,
      <<Page(<<>>)>>,
      <<Page(<<Line(<<"Hello">>), Line(<<"World">>)>>), Page(<<Line(<<"Done">>)>>)>> }

\* resultResponse.data of a status query that was answered.
StatusData ==
    [status : {"running", "notStarted", "failed", Undefined},
     hasResults : {FALSE}, readResults : {<<>>}]
    \cup [status : {"succeeded"}, hasResults : {TRUE}, readResults : ReadResults]
    \cup [status : {"succeeded"}, hasResults : {FALSE}, readResults : {<<>>}]

\* A status query is answered, or throws (network error, 30 s timeout, non-2xx).
StatusReplies == [kind : {"data"}, data : StatusData] \cup {[kind |-> "error", data |-> NoData]}

RECURSIVE TrimStart(_)
TrimStart(s) ==
    IF s # <<>> /\ Head(s) \in Whitespace THEN TrimStart(Tail(s)) ELSE s

RECURSIVE TrimEnd(_)
TrimEnd(s) ==
    IF s # <<>> /\ s[Len(s)] \in Whitespace THEN TrimEnd(SubSeq(s, 1, Len(s) - 1)) ELSE s

\* String.prototype.trim
Trim(s) == TrimEnd(TrimStart(s))

\* for (const line of page.lines || []) extractedText += line.text + "\n"
RECURSIVE LinesText(_)
LinesText(lines) ==
    IF lines = <<>> THEN <<>>
    ELSE Head(lines).text \o <<"\n">> \o LinesText(Tail(lines))

\* for (const page of pages) { ...lines...; extractedText += "\n" }
RECURSIVE PagesText(_)
PagesText(pages) ==
    IF pages = <<>> THEN <<>>
    ELSE LinesText(IF Head(pages).hasLines THEN Head(pages).lines ELSE <<>>)
             \o <<"\n">> \o PagesText(Tail(pages))

\* Faulty variant: a page without a `lines` field is dropped from the count.
extractTextFromResultSkipsBarePages(result) ==
    LET pages == IF result.hasResults THEN result.readResults ELSE <<>> IN
    [text |-> Trim(PagesText(pages)),
     pages |-> Len(SelectSeq(pages, LAMBDA page : page.hasLines))]

extractTextFromResult(result) ==
    LET pages == IF result.hasResults THEN result.readResults ELSE <<>> IN
    [text |-> Trim(PagesText(pages)), pages |-> Len(pages)]

----------------------------------------------------------------------------
(* The access gate *)

\* where(and(eq(payments.userId, userId), gt(payments.expiresAt, now))).limit(1)
\* Faulty variants: gte for gt; the userId condition left out.
ValidPaymentsOrEqual(rows, userId, t) ==
    {<<rows[i]>> : i \in {j \in 1..Len(rows) :
                             rows[j].userId = userId /\ rows[j].expiresAt >= t}}

ValidPaymentsAnyUser(rows, userId, t) ==
    {<<rows[i]>> : i \in {j \in 1..Len(rows) : rows[j].expiresAt > t}}

ValidPayments(rows, userId, t) ==
    {<<rows[i]>> : i \in {j \in 1..Len(rows) :
                             rows[j].userId = userId /\ rows[j].expiresAt > t}}

\* hasValidAccess: validPayments.length > 0
hasValidAccess(validPayments) == Len(validPayments) > 0

----------------------------------------------------------------------------
(* POST /api/ocr *)

Mimetypes ==
    {"application/pdf", "image/png", "image/jpeg", "image/jpg", "text/plain",
     "application/zip"}

\* Lines 327-331: the types of the image branch.
\* Faulty variant: the branch takes one type more.
ImageTypesAndArchives == {"image/png", "image/jpeg", "image/jpg", "application/zip"}

ImageTypes == {"image/png", "image/jpeg", "image/jpg"}

NoFile == [mimetype |-> "none", buffer |-> <<>>]

\* req.file: the bytes matter to this server only for text/plain.
Files ==
    [mimetype : Mimetypes \ {"text/plain"}, buffer : {<<"bytes">>}]
    \cup [mimetype : {"text/plain"}, buffer : {<<>>, <<"Hello">>, <<"xFF">>}]

\* buffer.toString("utf-8"): a byte that is no valid UTF-8 decodes to U+FFFD.
Utf8Decode(buffer) ==
    [i \in 1..Len(buffer) |-> IF buffer[i] = "xFF" THEN "uFFFD" ELSE buffer[i]]

JobHandles == {"operation-1"}

\* The submit call throws, answers without an operation-location header, or
\* answers with one.
SubmitReplies ==
    {[kind |-> "error", opLoc |-> "none"], [kind |-> "noHeader", opLoc |-> "none"]}
    \cup [kind : {"accepted"}, opLoc : JobHandles]

\* How long a status request takes, in ms: an answer comes as fast as the
\* service allows or just within the request's timeout; a failure comes fast
\* (a network error) or when the timeout expires.
Latencies(reply) ==
    IF reply.kind = "error" THEN {MinLatency, STATUS_TIMEOUT}
    ELSE {MinLatency, STATUS_TIMEOUT - 1}

\* The number of status requests of this poll run that took (nearly) the
\* whole timeout.
SlowReplies(r) == (r.elapsed - r.attempts * POLLING_INTERVAL) \div (STATUS_TIMEOUT - 1)

NoResponse == [status |-> 0, kind |-> "none", text |-> <<>>, pages |-> 0, message |-> <<>>]

NoTextMessage == <<"No text could be extracted from this document. ...">>
UnsupportedMessage == <<"Unsupported file type. Please upload PDF, PNG, JPG, or TXT files.">>
NoOperationLocationMessage == <<"Failed to get operation location from Azure">>
TimeoutMessage == <<"OCR processing timed out. ...">>
FailedMessage(status) == <<"OCR operation failed with status: ", status>>

IdleRequest ==
    [pc |-> "idle", user |-> NoUser, file |-> NoFile, gateNow |-> 0,
     hasAccess |-> "unchecked", connected |-> TRUE,
     submits |-> 0, contentType |-> "none", operationLocation |-> "none",
     attempts |-> 0, status |-> "none", result |-> NoData, resultResponse |-> NoData,
     queries |-> 0, elapsed |-> 0, resp |-> NoResponse]

\* res.status(code).json({message})
RespondError(r, code, message) ==
    [r EXCEPT !.pc = "done",
              !.resp = [status |-> code, kind |-> "error", text |-> <<>>, pages |-> 0,
                        message |-> message]]

\* Faulty variant: the text is returned as it is.
RespondTextAsIs(r, text, pages) ==
    [r EXCEPT !.pc = "done",
              !.resp = [status |-> 200, kind |-> "text", text |-> text,
                        pages |-> pages, message |-> <<>>]]

\* Lines 342-349: an empty text is replaced by the fixed message.
RespondText(r, text, pages) ==
    [r EXCEPT !.pc = "done",
              !.resp = [status |-> 200, kind |-> "text",
                        text |-> IF Len(text) = 0 THEN NoTextMessage ELSE text,
                        pages |-> pages, message |-> <<>>]]

\* Line 34: the statuses on which the loop goes on.
\* Faulty variants: 'notStarted' forgotten; everything but 'succeeded' polled on.
IsNonTerminalOnlyRunning(status) == status = "running"

IsNonTerminalUnlessSucceeded(status) == status # "succeeded"

IsNonTerminal(status) == status \in {"running", "notStarted"}

\* Line 35: the attempt bound, tested before each sleep.
\* Faulty variant: one attempt short.
AttemptsExhaustedOffByOne(attempts) == attempts >= MAX_POLLING_ATTEMPTS - 1

AttemptsExhausted(attempts) == attempts >= MAX_POLLING_ATTEMPTS

\* Line 49: result = resultResponse.data
\* Faulty variant: the first answer is kept.
KeepFirstResult(old, data) == IF old = NoData THEN data ELSE old

AssignResult(old, data) == data

\* Lines 98-100 and 124-125, then 323-349: what the handler does with the
\* value pollForResult returns.
FinishExtraction(r) ==
    LET extracted == extractTextFromResult(r.result) IN
    IF r.file.mimetype = "application/pdf"
      THEN RespondText(r, extracted.text, extracted.pages)
      ELSE RespondText(r, extracted.text, 1)

\* Lines 34-57: the loop test, the attempt bound and the code after the loop,
\* run from the current status: up to the next sleep, a throw or the return.
PollLoop(r) ==
    IF IsNonTerminal(r.status)
      THEN IF AttemptsExhausted(r.attempts)
             THEN RespondError(r, 500, TimeoutMessage)
             ELSE [r EXCEPT !.pc = "sleeping"]
    ELSE IF r.status # "succeeded"
      THEN RespondError(r, 500, FailedMessage(r.status))
    ELSE FinishExtraction(r)

\* Lines 77-91 and 103-117: the credentials test and the submit call.
\* Faulty variant: the upload's declared type is sent as Content-Type.
SubmitAsDeclared(r, contentType) ==
    IF ~env.azure
      THEN RespondError(r, 500, <<"Azure Cognitive Services credentials are not configured">>)
      ELSE [r EXCEPT !.pc = "awaitSubmit", !.submits = @ + 1,
                     !.contentType = r.file.mimetype]

Submit(r, contentType) ==
    IF ~env.azure
      THEN RespondError(r, 500, <<"Azure Cognitive Services credentials are not configured">>)
      ELSE [r EXCEPT !.pc = "awaitSubmit", !.submits = @ + 1, !.contentType = contentType]

\* Lines 313-349: the handler past the gate, up to its first await.
Dispatch(r) ==
    IF r.file = NoFile
      THEN RespondError(r, 400, <<"No file uploaded">>)
    ELSE IF r.file.mimetype = "application/pdf"
      THEN Submit(r, "application/pdf")
    ELSE IF r.file.mimetype \in ImageTypes
      THEN Submit(r, "application/octet-stream")
    ELSE IF r.file.mimetype = "text/plain"
      THEN RespondText(r, Utf8Decode(r.file.buffer), 1)
    ELSE RespondError(r, 400, UnsupportedMessage)

\* Line 304: req.isAuthenticated() && req.user
IsAuthenticated(r) == r.user # NoUser

\* Lines 302-306 (then 313-340 for a caller without identity): a request
\* arrives; for an authenticated caller the access query is issued with the
\* current time.
OcrStart(u, f) ==
    /\ req.pc = "idle"
    /\ LET r == [IdleRequest EXCEPT !.user = u, !.file = f] IN
         req' = IF IsAuthenticated(r)
                  THEN [r EXCEPT !.pc = "awaitAccess", !.gateNow = now]
                  ELSE Dispatch(r)
    /\ UNCHANGED <<now, env, payments, wh, deliveries, uploads, jobs, ui, access>>

\* Lines 131-142 and 306-340: the access query is answered.
OcrAccessResult ==
    /\ req.pc = "awaitAccess"
    /\ \E validPayments \in QueryResults(ValidPayments(payments, req.user, req.gateNow)) :
         req' = IF ~hasValidAccess(validPayments)
                  THEN RespondError([req EXCEPT !.hasAccess = "no"], 403,
                           <<"Please purchase access to use the OCR feature">>)
                  ELSE Dispatch([req EXCEPT !.hasAccess = "yes"])
    /\ UNCHANGED <<now, env, payments, wh, deliveries, uploads, jobs, ui, access>>

\* Lines 131-134 and 306: the access query is rejected by the storage layer.
\* The await of line 306 stands before the try of line 313, so the rejection
\* leaves the route callback: either nothing answers the request, or the
\* framework's own error handling answers it 500 (which of the two depends on
\* the framework version the build installs).
OcrAccessRejected(answered) ==
    /\ req.pc = "awaitAccess"
    /\ req' = IF answered
                THEN RespondError(req, 500, <<"Internal Server Error">>)
                ELSE [req EXCEPT !.pc = "crashed"]
    /\ UNCHANGED <<now, env, payments, wh, deliveries, uploads, jobs, ui, access>>

\* Lines 93-98 / 119-124 and 30-39: the submit call is answered; with a job
\* handle pollForResult starts and reaches its first sleep.
\* Faulty variant: the header is not tested and polling starts without a handle.
SubmitResponseUntested(reply) ==
    /\ req.pc = "awaitSubmit"
    /\ req' = IF reply.kind = "error"
                THEN RespondError(req, 500, <<"upstream error">>)
              ELSE PollLoop([req EXCEPT !.operationLocation = reply.opLoc,
                                        !.attempts = 0, !.status = "running"])
    /\ UNCHANGED <<now, env, payments, wh, deliveries, uploads, jobs, ui, access>>

SubmitResponse(reply) ==
    /\ req.pc = "awaitSubmit"
    /\ req' = IF reply.kind = "error"
                THEN RespondError(req, 500, <<"upstream error">>)
              ELSE IF reply.kind = "noHeader"
                THEN RespondError(req, 500, NoOperationLocationMessage)
              ELSE PollLoop([req EXCEPT !.operationLocation = reply.opLoc,
                                        !.attempts = 0, !.status = "running"])
    /\ UNCHANGED <<now, env, payments, wh, deliveries, uploads, jobs, ui, access>>

\* Lines 39-47: the timer fires, the attempt is counted and the status query
\* is sent; this iteration's resultResponse has no value until it is answered.
PollWake ==
    /\ req.pc = "sleeping"
    /\ req' = [req EXCEPT !.pc = "awaitStatus", !.attempts = @ + 1, !.queries = @ + 1,
                          !.resultResponse = NoData,
                          !.elapsed = @ + POLLING_INTERVAL]
    /\ UNCHANGED <<now, env, payments, wh, deliveries, uploads, jobs, ui, access>>

\* Lines 42-57: the status query is answered after `latency` ms, or throws
\* (then the handler's catch answers 500).
StatusResponse(reply, latency) ==
    /\ req.pc = "awaitStatus"
    /\ latency \in Latencies(reply)
    /\ latency > MinLatency => SlowReplies(req) < MaxSlowReplies
    /\ LET r == [req EXCEPT !.elapsed = @ + latency]
           result == AssignResult(r.result, reply.data)
       IN
         req' = IF reply.kind = "error"
                  THEN RespondError(r, 500, <<"upstream error">>)
                  ELSE PollLoop([r EXCEPT !.resultResponse = reply.data,
                                          !.result = result,
                                          !.status = result.status])
    /\ UNCHANGED <<now, env, payments, wh, deliveries, uploads, jobs, ui, access>>

\* The response has been sent and the handler's locals are gone; the next
\* upload can arrive.
OcrFinish ==
    /\ req.pc = "done"
    /\ req' = IdleRequest
    /\ UNCHANGED <<now, env, payments, wh, deliveries, uploads, jobs, ui, access>>

\* The client closes the connection; the handler registers no listener for it.
ClientDisconnect ==
    /\ req.pc \notin {"idle", "done"}
    /\ req.connected
    /\ req' = [req EXCEPT !.connected = FALSE]
    /\ UNCHANGED <<now, env, payments, wh, deliveries, uploads, jobs, ui, access>>

----------------------------------------------------------------------------
(* The combine utility: state of the component *)

\* draggedIndex === null
Null == -1

\* useState initial values (home.tsx 128-130, 383), the values the handlers of
\* the last render closed over (`shown`), the run of handleCombineFiles in
\* progress, the toast raised by the last step, and whether the browser is in a drag operation
\* started on a list entry. `dragFrom` is history: the list and the index at
\* the last drag start.
IdleUi ==
    [txtFiles |-> <<>>, combinedText |-> <<>>, isCombining |-> FALSE,
     draggedIndex |-> Null,
     shown |-> [txtFiles |-> <<>>, draggedIndex |-> Null],
     run |-> [pc |-> "idle", files |-> <<>>, contents |-> <<>>],
     toast |-> "none", dragging |-> FALSE,
     dragFrom |-> [txtFiles |-> <<>>, index |-> Null]]

\* No upload is being handled in any slot; the service has issued no handle.
UploadSlots == {"r1", "r2"}
NoUploads == [s \in UploadSlots |-> IdleRequest]
NoJobs == <<>>

----------------------------------------------------------------------------
(* GET /api/access-status *)

\* Date.prototype.toISOString: the instant written as text; different
\* instants give different texts.
toISOString(t) == <<"ISO", t>>

NoAnswer == [status |-> 0, hasAccess |-> FALSE, expiresAt |-> Null, message |-> <<>>]

\* `seen` is history: the rows the query was answered with.
IdleAccess ==
    [pc |-> "idle", user |-> NoUser, now |-> 0, seen |-> <<>>, resp |-> NoAnswer]

\* Lines 148-157: the query of getAccessExpiry, the same where clause and
\* limit as the gate's.
\* Faulty variant: the condition on expiresAt left out.
ExpiryQueryAnyTime(rows, userId, t) ==
    {<<rows[i]>> : i \in {j \in 1..Len(rows) : rows[j].userId = userId}}

\* Faulty variant: the condition on userId left out.
ExpiryQueryAnyUser(rows, userId, t) ==
    {<<rows[i]>> : i \in {j \in 1..Len(rows) : rows[j].expiresAt > t}}

ExpiryQuery(rows, userId, t) ==
    {<<rows[i]>> : i \in {j \in 1..Len(rows) :
                             rows[j].userId = userId /\ rows[j].expiresAt > t}}

\* Line 159: validPayments.length > 0 ? validPayments[0].expiresAt : null
getAccessExpiry(validPayments) ==
    IF Len(validPayments) > 0 THEN validPayments[1].expiresAt ELSE Null

\* Lines 171-177 and 147-148: the request arrives; a caller without identity
\* is answered 401, for the others the query is issued with the current time.
AccessStatusStart(u) ==
    /\ access.pc = "idle"
    /\ access' = IF u = NoUser
                   THEN [IdleAccess EXCEPT !.pc = "done",
                            !.resp = [NoAnswer EXCEPT !.status = 401,
                                                      !.message = <<"Unauthorized">>]]
                   ELSE [IdleAccess EXCEPT !.pc = "awaitExpiry", !.user = u, !.now = now]
    /\ UNCHANGED <<now, env, payments, wh, deliveries, req, uploads, jobs, ui>>

\* Lines 149-159 and 179-182: the query is answered and the response is sent.
AccessStatusResult ==
    /\ access.pc = "awaitExpiry"
    /\ \E validPayments \in QueryResults(ExpiryQuery(payments, access.user, access.now)) :
         LET expiresAt == getAccessExpiry(validPayments) IN
           access' = [access EXCEPT
                         !.pc = "done", !.seen = validPayments,
                         !.resp = [NoAnswer EXCEPT
                                      !.status = 200,
                                      !.hasAccess = expiresAt # Null,
                                      !.expiresAt = IF expiresAt # Null
                                                      THEN toISOString(expiresAt)
                                                      ELSE Null]]
    /\ UNCHANGED <<now, env, payments, wh, deliveries, req, uploads, jobs, ui>>

\* The response has been sent; the next request can arrive.
AccessStatusFinish ==
    /\ access.pc = "done"
    /\ access' = IdleAccess
    /\ UNCHANGED <<now, env, payments, wh, deliveries, req, uploads, jobs, ui>>

----------------------------------------------------------------------------

Init ==
    /\ now = 0
    /\ env \in [webhookSecret : BOOLEAN, azure : {TRUE}]
    /\ payments = <<>>
    /\ wh = [h \in Handlers |-> IdleHandler]
    /\ deliveries = 0
    /\ req = IdleRequest
    /\ uploads = NoUploads
    /\ jobs = NoJobs
    /\ ui = IdleUi
    /\ access = IdleAccess

Next ==
    \/ Tick
    \/ \E h \in Handlers, d \in Deliveries : WebhookReceive(h, d)
    \/ \E h \in Handlers : WebhookSelectResult(h)
    \/ \E h \in Handlers : WebhookInsertResult(h)

Spec == Init /\ [][Next]_vars

\* The webhook with a storage layer that can fail. Every query the handler
\* awaits is settled in the end, one way or the other; nothing obliges Stripe
\* to send another request or the clock to be read.
NextStorage ==
    \/ Next
    \/ \E h \in Handlers : WebhookSelectRejected(h)
    \/ \E h \in Handlers : WebhookInsertRejected(h)

SpecStorage ==
    /\ Init
    /\ [][NextStorage]_vars
    /\ \A h \in Handlers :
          /\ WF_vars(WebhookSelectResult(h) \/ WebhookSelectRejected(h))
          /\ WF_vars(WebhookInsertResult(h) \/ WebhookInsertRejected(h))

\* The upload endpoint with the poll loop, for callers of every kind on an
\* empty payments table; status requests take either latency.
InitPoll ==
    /\ now = 0
    /\ env \in [webhookSecret : {TRUE}, azure : BOOLEAN]
    /\ payments = <<>>
    /\ wh = [h \in Handlers |-> IdleHandler]
    /\ deliveries = 0
    /\ req = IdleRequest
    /\ uploads = NoUploads
    /\ jobs = NoJobs
    /\ ui = IdleUi
    /\ access = IdleAccess

NextPoll ==
    \/ \E u \in Users \cup {NoUser}, f \in Files \cup {NoFile} : OcrStart(u, f)
    \/ OcrAccessResult
    \/ \E reply \in SubmitReplies : SubmitResponse(reply)
    \/ PollWake
    \/ \E reply \in StatusReplies :
          \E latency \in Latencies(reply) : StatusResponse(reply, latency)
    \/ OcrFinish

SpecPoll == InitPoll /\ [][NextPoll]_vars

\* A table as earlier webhook deliveries leave it: rows granted up to one
\* grant period before the clock's origin.
InitialTables ==
    {<<>>} \cup
    {<<NewPayment(u, "sess_123", e)>> : u \in Users, e \in 0..GrantExpiry(0)}

\* The upload endpoint behind the access gate while time passes.
InitOcr ==
    /\ now = 0
    /\ env \in [webhookSecret : {TRUE}, azure : {TRUE}]
    /\ payments \in InitialTables
    /\ wh = [h \in Handlers |-> IdleHandler]
    /\ deliveries = 0
    /\ req = IdleRequest
    /\ uploads = NoUploads
    /\ jobs = NoJobs
    /\ ui = IdleUi
    /\ access = IdleAccess

\* One upload of each kind of handling: none, OCR, plain text, unsupported.
GateFiles ==
    {NoFile,
     [mimetype |-> "application/pdf", buffer |-> <<"bytes">>],
     [mimetype |-> "text/plain", buffer |-> <<"Hello">>],
     [mimetype |-> "application/zip", buffer |-> <<"bytes">>]}

NextOcr ==
    \/ Tick
    \/ \E u \in Users \cup {NoUser}, f \in GateFiles : OcrStart(u, f)
    \/ OcrAccessResult
    \/ \E reply \in SubmitReplies : SubmitResponse(reply)
    \/ PollWake
    \/ \E reply \in StatusReplies : StatusResponse(reply, MinLatency)
    \/ ClientDisconnect
    \/ OcrFinish

SpecOcr == InitOcr /\ [][NextOcr]_vars

\* The upload endpoint with a storage layer that can fail, at one instant.
\* Every call the handler awaits is settled in the end and every timer fires.
AnsweredFiles == GateFiles \cup {[mimetype |-> "image/png", buffer |-> <<"bytes">>]}

NextOcrStorage ==
    \/ \E u \in Users \cup {NoUser}, f \in AnsweredFiles : OcrStart(u, f)
    \/ OcrAccessResult
    \/ \E answered \in BOOLEAN : OcrAccessRejected(answered)
    \/ \E reply \in SubmitReplies : SubmitResponse(reply)
    \/ PollWake
    \/ \E reply \in StatusReplies : StatusResponse(reply, MinLatency)
    \/ OcrFinish

SpecOcrStorage ==
    /\ InitOcr
    /\ [][NextOcrStorage]_vars
    /\ WF_vars(OcrAccessResult \/ \E answered \in BOOLEAN : OcrAccessRejected(answered))
    /\ WF_vars(\E reply \in SubmitReplies : SubmitResponse(reply))
    /\ WF_vars(PollWake)
    /\ WF_vars(\E reply \in StatusReplies : StatusResponse(reply, MinLatency))

\* The access-status endpoint beside the gate of the upload endpoint, while
\* time passes, on tables of up to two rows as earlier deliveries leave them.
AccessTables ==
    InitialTables \cup
    {<<NewPayment(u, "sess_123", e), NewPayment(v, "sess_456", d)>> :
        u \in Users, v \in Users, e \in 0..GrantExpiry(0), d \in 0..GrantExpiry(0)}

InitAccess ==
    /\ now = 0
    /\ env \in [webhookSecret : {TRUE}, azure : {TRUE}]
    /\ payments \in AccessTables
    /\ wh = [h \in Handlers |-> IdleHandler]
    /\ deliveries = 0
    /\ req = IdleRequest
    /\ uploads = NoUploads
    /\ jobs = NoJobs
    /\ ui = IdleUi
    /\ access = IdleAccess

NextAccess ==
    \/ Tick
    \/ \E u \in Users \cup {NoUser} :
          OcrStart(u, [mimetype |-> "text/plain", buffer |-> <<"Hello">>])
    \/ OcrAccessResult
    \/ OcrFinish
    \/ \E u \in Users \cup {NoUser} : AccessStatusStart(u)
    \/ AccessStatusResult
    \/ AccessStatusFinish

SpecAccess == InitAccess /\ [][NextAccess]_vars

----------------------------------------------------------------------------
(* extractTextFromResult on its own *)

MaxPages == 3
MaxLines == 2

\* A page object that has no `lines` field.
PageNoLines == [hasLines |-> FALSE, lines |-> <<>>]

\* line.text: plain, and with whitespace at both ends.
LineTexts == {<<"Hello">>, <<" ", "World", " ">>}

SeqsUpTo(S, n) == UNION {[1..k -> S] : k \in 0..n}

NormPages == {PageNoLines} \cup {Page(ls) : ls \in SeqsUpTo({Line(t) : t \in LineTexts}, MaxLines)}

\* The payloads handed to extractTextFromResult: without
\* analyzeResult.readResults (analyzeResult absent, or present without the
\* field: `result.analyzeResult?.readResults` is undefined in both cases), and
\* with a list of pages.
NormInputs ==
    {[status |-> "succeeded", hasResults |-> FALSE, readResults |-> <<>>]}
    \cup [status : {"succeeded"}, hasResults : {TRUE},
          readResults : SeqsUpTo(NormPages, MaxPages) \cup ReadResults]

\* What a call of extractTextFromResult leaves with its caller.
Extracted(r) ==
    LET extracted == extractTextFromResult(r.result) IN
    [status |-> 0, kind |-> "extracted", text |-> extracted.text,
     pages |-> extracted.pages, message |-> <<>>]

\* Lines 60-75, called at 99 and 125: the function is applied to the payload
\* it is given; it writes to its own locals only.
Extract ==
    /\ req.pc = "extract"
    /\ req' = [req EXCEPT !.pc = "extracted", !.resp = Extracted(req)]
    /\ UNCHANGED <<now, env, payments, wh, deliveries, uploads, jobs, ui, access>>

\* A second call on the same payload.
ExtractAgain ==
    /\ req.pc = "extracted"
    /\ req' = [req EXCEPT !.pc = "extractedAgain", !.resp = Extracted(req)]
    /\ UNCHANGED <<now, env, payments, wh, deliveries, uploads, jobs, ui, access>>

InitNorm ==
    /\ now = 0
    /\ env \in [webhookSecret : {TRUE}, azure : {TRUE}]
    /\ payments = <<>>
    /\ wh = [h \in Handlers |-> IdleHandler]
    /\ deliveries = 0
    /\ \E result \in NormInputs :
          req = [IdleRequest EXCEPT !.pc = "extract", !.result = result]
    /\ uploads = NoUploads
    /\ jobs = NoJobs
    /\ ui = IdleUi
    /\ access = IdleAccess

NextNorm ==
    \/ Extract
    \/ ExtractAgain

SpecNorm == InitNorm /\ [][NextNorm]_vars

\* The upload endpoint for a caller without identity, with uploads and
\* recognition results of every kind of text: none, blank, and some.
TextFiles ==
    Files \cup {[mimetype |-> "text/plain", buffer |-> <<" ", "\n">>]}

TextReadResults ==
    { <<>>,
      <<PageNoLines, Page(<<>>)>>,
      <<Page(<<Line(<<" ">>), Line(<<"\n", " ">>)>>)>>,
      <<Page(<<Line(<<"Hello">>)>>), PageNoLines, Page(<<Line(<<" ", "World", " ">>)>>)>> }

TextReplies ==
    {reply \in StatusReplies : reply.kind = "error" \/ reply.data.status # "succeeded"}
    \cup {[kind |-> "data",
           data |-> [status |-> "succeeded", hasResults |-> FALSE, readResults |-> <<>>]]}
    \cup {[kind |-> "data",
           data |-> [status |-> "succeeded", hasResults |-> TRUE, readResults |-> pages]] :
             pages \in TextReadResults}

NextText ==
    \/ \E f \in TextFiles \cup {NoFile} : OcrStart(NoUser, f)
    \/ \E reply \in SubmitReplies : SubmitResponse(reply)
    \/ PollWake
    \/ \E reply \in TextReplies : StatusResponse(reply, MinLatency)
    \/ OcrFinish

SpecText == InitPoll /\ [][NextText]_vars

----------------------------------------------------------------------------
(* The combine utility (client/src/pages/home.tsx) *)

MaxFiles == 3
MaxPicked == 2

\* A File of the browser: its name, cut before the extension, and the text
\* its bytes decode to.
TxtFile(stem) == [name |-> <<stem, ".txt">>, content |-> <<"text of ", stem>>]

PickableFiles ==
    {TxtFile("A"), TxtFile("B"), TxtFile("C"),
     [name |-> <<"scan", ".pdf">>, content |-> <<"%PDF">>],
     [name |-> <<"NOTES", ".TXT">>, content |-> <<"text of ", "NOTES">>]}

\* What a file dialog or a drop hands over: some files, in the order chosen.
Picked ==
    {files \in UNION {[1..k -> PickableFiles] : k \in 1..MaxPicked} :
        \A i, j \in 1..Len(files) : files[i] = files[j] => i = j}

\* The user does not pick a file that is in the list already.
Fresh(list, files) ==
    \A i \in 1..Len(list) : \A j \in 1..Len(files) : list[i] # files[j]

\* f.name.endsWith('.txt')
EndsWithTxt(f) == f.name[Len(f.name)] = ".txt"

\* files.filter(f => f.name.endsWith('.txt'))
TxtFilesOnly(files) == SelectSeq(files, EndsWithTxt)

Separator == "\n\n--- Next File ---\n\n"

\* contents.join("\n\n--- Next File ---\n\n"), the text of a file being a
\* sequence of tokens and the separator one token.
\* Faulty variant: joined from the last to the first.
RECURSIVE JoinReversed(_)
JoinReversed(contents) ==
    IF contents = <<>> THEN <<>>
    ELSE IF Len(contents) = 1 THEN Head(contents)
    ELSE JoinReversed(Tail(contents)) \o <<Separator>> \o Head(contents)

RECURSIVE Join(_)
Join(contents) ==
    IF contents = <<>> THEN <<>>
    ELSE IF Len(contents) = 1 THEN Head(contents)
    ELSE Head(contents) \o <<Separator>> \o Join(Tail(contents))

\* Array positions are counted from 0 as in the source.
At(list, i) == list[i + 1]

Indices(list) == 0..(Len(list) - 1)

\* [a[i], a[j]] = [a[j], a[i]]
\* Faulty variant: nothing is exchanged.
SwapNothing(list, i, j) == list

Swap(list, i, j) ==
    [k \in 1..Len(list) |->
        IF k = i + 1 THEN list[j + 1] ELSE IF k = j + 1 THEN list[i + 1] ELSE list[k]]

\* a.splice(i, 1), and prev.filter((_, k) => k !== i)
RemoveAt(list, i) ==
    IF i \in Indices(list)
      THEN SubSeq(list, 1, i) \o SubSeq(list, i + 2, Len(list))
      ELSE list

\* a.splice(i, 0, x): past the end the element is appended.
InsertAt(list, i, x) ==
    IF i >= Len(list) THEN Append(list, x)
    ELSE SubSeq(list, 1, i) \o <<x>> \o SubSeq(list, i + 1, Len(list))

\* Lines 393-399: the updater of handleFileDragOver, with the draggedIndex
\* the handler closed over.
\* Faulty variant: the entry is put back where it was taken.
DragUpdaterInPlace(prev, draggedIndex, index) ==
    InsertAt(RemoveAt(prev, draggedIndex), draggedIndex, At(prev, draggedIndex))

DragUpdater(prev, draggedIndex, index) ==
    InsertAt(RemoveAt(prev, draggedIndex), index, At(prev, draggedIndex))

\* React commits the state and renders: the handlers created by this render
\* close over the committed txtFiles and draggedIndex.
Rendered(u) ==
    [u EXCEPT !.shown = [txtFiles |-> u.txtFiles, draggedIndex |-> u.draggedIndex]]

IdleRun == [pc |-> "idle", files |-> <<>>, contents |-> <<>>]

\* A step that raises no toast.
Quiet(u) == [u EXCEPT !.toast = "none"]

\* Lines 256-268: files chosen in the file dialog.
handleTxtFilesChange(files) ==
    /\ ~ui.dragging
    /\ Fresh(ui.txtFiles, files)
    /\ LET txtFilesOnly == TxtFilesOnly(files) IN
         /\ Len(ui.txtFiles) + Len(txtFilesOnly) <= MaxFiles
         /\ ui' = Rendered([ui EXCEPT
                     !.toast = IF Len(txtFilesOnly) # Len(files)
                                 THEN "Some files skipped" ELSE "none",
                     !.txtFiles = @ \o txtFilesOnly,
                     !.combinedText = <<>>])
    /\ UNCHANGED <<now, env, payments, wh, deliveries, req, uploads, jobs, access>>

\* Lines 280-296: files dropped on the drop zone.
handleTxtDrop(droppedFiles) ==
    /\ ~ui.dragging
    /\ Fresh(ui.txtFiles, droppedFiles)
    /\ LET txtFilesOnly == TxtFilesOnly(droppedFiles)
           warned == [ui EXCEPT !.toast = IF Len(txtFilesOnly) # Len(droppedFiles)
                                            THEN "Some files skipped" ELSE "none"]
       IN
         /\ Len(ui.txtFiles) + Len(txtFilesOnly) <= MaxFiles
         /\ ui' = IF Len(txtFilesOnly) > 0
                    THEN Rendered([warned EXCEPT !.txtFiles = @ \o txtFilesOnly,
                                                 !.combinedText = <<>>])
                    ELSE Rendered(warned)
    /\ UNCHANGED <<now, env, payments, wh, deliveries, req, uploads, jobs, access>>

\* Lines 298-305: a click on "Combine Files" (shown for a non-empty list,
\* disabled while isCombining); the handler runs with the txtFiles of the
\* render it was created in, up to the first file.text().
handleCombineFiles ==
    /\ ~ui.dragging
    /\ ui.shown.txtFiles # <<>>
    /\ ~ui.isCombining
    /\ ui' = IF Len(ui.shown.txtFiles) = 0
               THEN Quiet(ui)
               ELSE Rendered([Quiet(ui) EXCEPT !.isCombining = TRUE,
                                        !.run = [pc |-> "reading",
                                                 files |-> ui.shown.txtFiles,
                                                 contents |-> <<>>]])
    /\ UNCHANGED <<now, env, payments, wh, deliveries, req, uploads, jobs, access>>

\* Lines 304-322: file.text() of the next file of the captured list settles.
\* Read in full, it is pushed; after the last one the join is stored. A
\* rejected read goes to the catch. Both ways end in the finally block.
\* Faulty variant: the catch stores what was read so far.
CombineReadKeepsPartial(ok) ==
    /\ ui.run.pc = "reading"
    /\ LET file == ui.run.files[Len(ui.run.contents) + 1]
           contents == Append(ui.run.contents, file.content)
       IN
         ui' = IF ~ok
                 THEN Rendered([ui EXCEPT !.combinedText = Join(ui.run.contents),
                                          !.toast = "Error combining files",
                                          !.isCombining = FALSE, !.run = IdleRun])
               ELSE IF Len(contents) < Len(ui.run.files)
                 THEN [Quiet(ui) EXCEPT !.run.contents = contents]
               ELSE Rendered([ui EXCEPT !.combinedText = Join(contents),
                                        !.toast = "Files combined",
                                        !.isCombining = FALSE, !.run = IdleRun])
    /\ UNCHANGED <<now, env, payments, wh, deliveries, req, uploads, jobs, access>>

CombineRead(ok) ==
    /\ ui.run.pc = "reading"
    /\ LET file == ui.run.files[Len(ui.run.contents) + 1]
           contents == Append(ui.run.contents, file.content)
       IN
         ui' = IF ~ok
                 THEN Rendered([ui EXCEPT !.toast = "Error combining files",
                                          !.isCombining = FALSE, !.run = IdleRun])
               ELSE IF Len(contents) < Len(ui.run.files)
                 THEN [Quiet(ui) EXCEPT !.run.contents = contents]
               ELSE Rendered([ui EXCEPT !.combinedText = Join(contents),
                                        !.toast = "Files combined",
                                        !.isCombining = FALSE, !.run = IdleRun])
    /\ UNCHANGED <<now, env, payments, wh, deliveries, req, uploads, jobs, access>>

\* Lines 352-355: "Clear All", shown for a non-empty list.
handleClearTxt ==
    /\ ~ui.dragging
    /\ ui.shown.txtFiles # <<>>
    /\ ui' = Rendered([Quiet(ui) EXCEPT !.txtFiles = <<>>, !.combinedText = <<>>])
    /\ UNCHANGED <<now, env, payments, wh, deliveries, req, uploads, jobs, access>>

\* Lines 357-365
moveFileUp(index) ==
    /\ ~ui.dragging
    /\ index \in Indices(ui.shown.txtFiles)
    /\ ui' = IF index <= 0
               THEN Quiet(ui)
               ELSE Rendered([Quiet(ui) EXCEPT !.txtFiles = Swap(@, index - 1, index),
                                        !.combinedText = <<>>])
    /\ UNCHANGED <<now, env, payments, wh, deliveries, req, uploads, jobs, access>>

\* Lines 367-375
moveFileDown(index) ==
    /\ ~ui.dragging
    /\ index \in Indices(ui.shown.txtFiles)
    /\ ui' = Rendered([Quiet(ui) EXCEPT
                !.txtFiles = IF index >= Len(@) - 1 THEN @ ELSE Swap(@, index, index + 1),
                !.combinedText = <<>>])
    /\ UNCHANGED <<now, env, payments, wh, deliveries, req, uploads, jobs, access>>

\* Lines 377-380
removeFile(index) ==
    /\ ~ui.dragging
    /\ index \in Indices(ui.shown.txtFiles)
    /\ ui' = Rendered([Quiet(ui) EXCEPT !.txtFiles = RemoveAt(@, index),
                                        !.combinedText = <<>>])
    /\ UNCHANGED <<now, env, payments, wh, deliveries, req, uploads, jobs, access>>

\* Lines 385-387: a drag starts on the entry shown at `index`.
handleFileDragStart(index) ==
    /\ ~ui.dragging
    /\ index \in Indices(ui.shown.txtFiles)
    /\ ui' = Rendered([Quiet(ui) EXCEPT !.draggedIndex = index, !.dragging = TRUE,
                                 !.dragFrom = [txtFiles |-> ui.txtFiles, index |-> index]])
    /\ UNCHANGED <<now, env, payments, wh, deliveries, req, uploads, jobs, access>>

\* Lines 389-401: the pointer is over the entry shown at `index`. The handler
\* is the one of the last render, with that render's draggedIndex; the two
\* updates are queued and no render follows at once (dragover is not a
\* discrete event).
handleFileDragOver(index) ==
    /\ ui.dragging
    /\ index \in Indices(ui.shown.txtFiles)
    /\ LET draggedIndex == ui.shown.draggedIndex IN
         ui' = IF draggedIndex = Null \/ draggedIndex = index
                 THEN Quiet(ui)
                 ELSE [Quiet(ui) EXCEPT !.txtFiles = DragUpdater(@, draggedIndex, index),
                                 !.draggedIndex = index]
    /\ UNCHANGED <<now, env, payments, wh, deliveries, req, uploads, jobs, access>>

\* React renders the queued updates.
Render ==
    /\ ui # Rendered(ui)
    /\ ui' = Rendered(Quiet(ui))
    /\ UNCHANGED <<now, env, payments, wh, deliveries, req, uploads, jobs, access>>

\* Lines 403-406: the drag ends.
handleFileDragEnd ==
    /\ ui.dragging
    /\ ui' = Rendered([Quiet(ui) EXCEPT !.draggedIndex = Null, !.combinedText = <<>>,
                                 !.dragging = FALSE,
                                 !.dragFrom = [txtFiles |-> <<>>, index |-> Null]])
    /\ UNCHANGED <<now, env, payments, wh, deliveries, req, uploads, jobs, access>>

InitUi ==
    /\ now = 0
    /\ env \in [webhookSecret : {TRUE}, azure : {TRUE}]
    /\ payments = <<>>
    /\ wh = [h \in Handlers |-> IdleHandler]
    /\ deliveries = 0
    /\ req = IdleRequest
    /\ uploads = NoUploads
    /\ jobs = NoJobs
    /\ ui = IdleUi
    /\ access = IdleAccess

\* The list on its own: every way of editing it, with files of every kind.
NextList ==
    \/ \E files \in Picked : handleTxtFilesChange(files)
    \/ \E files \in Picked : handleTxtDrop(files)
    \/ handleClearTxt
    \/ \E index \in 0..(MaxFiles - 1) : moveFileUp(index)
    \/ \E index \in 0..(MaxFiles - 1) : moveFileDown(index)
    \/ \E index \in 0..(MaxFiles - 1) : removeFile(index)
    \/ \E index \in 0..(MaxFiles - 1) : handleFileDragStart(index)
    \/ \E index \in 0..(MaxFiles - 1) : handleFileDragOver(index)
    \/ Render
    \/ handleFileDragEnd

SpecList == InitUi /\ [][NextList]_vars

\* The choices that consist of '.txt' files only.
PickedTxt == {files \in Picked : TxtFilesOnly(files) = files}

\* The list edited while combinations run.
NextUi ==
    \/ \E files \in PickedTxt : handleTxtFilesChange(files)
    \/ \E files \in PickedTxt : handleTxtDrop(files)
    \/ handleCombineFiles
    \/ \E ok \in BOOLEAN : CombineRead(ok)
    \/ handleClearTxt
    \/ \E index \in 0..(MaxFiles - 1) : moveFileUp(index)
    \/ \E index \in 0..(MaxFiles - 1) : moveFileDown(index)
    \/ \E index \in 0..(MaxFiles - 1) : removeFile(index)
    \/ \E index \in 0..(MaxFiles - 1) : handleFileDragStart(index)
    \/ \E index \in 0..(MaxFiles - 1) : handleFileDragOver(index)
    \/ Render
    \/ handleFileDragEnd

SpecUi == InitUi /\ [][NextUi]_vars

----------------------------------------------------------------------------
(* POST /api/ocr handled for several requests side by side *)

MaxJobs == 3
MaxRunningReplies == 2

\* The operation-location values the service hands out, in the order of the
\* submits it accepts: a new one for every submit.
Handle(k) == <<"operation-1", "operation-2", "operation-3", "operation-4">>[k]

\* What the service keeps for a job: its handle, the request that submitted
\* it ("gone" once that request is answered and its locals are dropped), the
\* number of status queries received for it, and whether any of them came
\* from a request other than the submitter.
NewJob(k, s) == [handle |-> Handle(k), owner |-> s, queries |-> 0, foreign |-> FALSE]

JobOf(handle) == CHOOSE k \in 1..Len(jobs) : jobs[k].handle = handle

\* Line 42: the URL a status query of the request in slot s goes to, the
\* operationLocation parameter of its own pollForResult call.
\* Faulty variant: the handle issued last, as one variable shared by all
\* requests would hold it.
PollTargetShared(s) == jobs[Len(jobs)].handle

PollTarget(s) == uploads[s].operationLocation

UploadFiles ==
    {[mimetype |-> "application/pdf", buffer |-> <<"bytes">>],
     [mimetype |-> "image/png", buffer |-> <<"bytes">>]}

\* The answers to a status query that matter here.
UploadReplies ==
    {reply \in StatusReplies :
        \/ reply.kind = "error"
        \/ reply.data.status \in {"running", "failed"}
        \/ reply.data.status = "succeeded" /\ reply.data.readResults = <<Page(<<>>)>>}

\* Lines 302-306 for the request in slot s (as OcrStart).
UploadStart(s, u, f) ==
    /\ uploads[s].pc = "idle"
    /\ LET r == [IdleRequest EXCEPT !.user = u, !.file = f] IN
         uploads' = [uploads EXCEPT ![s] =
                        IF IsAuthenticated(r)
                          THEN [r EXCEPT !.pc = "awaitAccess", !.gateNow = now]
                          ELSE Dispatch(r)]
    /\ UNCHANGED <<now, env, payments, wh, deliveries, req, jobs, ui, access>>

\* Lines 131-142 and 306-340 for the request in slot s (as OcrAccessResult).
UploadAccessResult(s) ==
    /\ uploads[s].pc = "awaitAccess"
    /\ \E validPayments \in
            QueryResults(ValidPayments(payments, uploads[s].user, uploads[s].gateNow)) :
         uploads' = [uploads EXCEPT ![s] =
                        IF ~hasValidAccess(validPayments)
                          THEN RespondError([@ EXCEPT !.hasAccess = "no"], 403,
                                   <<"Please purchase access to use the OCR feature">>)
                          ELSE Dispatch([@ EXCEPT !.hasAccess = "yes"])]
    /\ UNCHANGED <<now, env, payments, wh, deliveries, req, jobs, ui, access>>

\* Lines 93-98 / 119-124 for the request in slot s (as SubmitResponse); an
\* accepted submit makes the service create a job with a handle of its own.
UploadSubmitResponse(s, kind) ==
    /\ uploads[s].pc = "awaitSubmit"
    /\ IF kind = "accepted"
         THEN /\ Len(jobs) < MaxJobs
              /\ jobs' = Append(jobs, NewJob(Len(jobs) + 1, s))
              /\ uploads' = [uploads EXCEPT ![s] =
                                PollLoop([@ EXCEPT !.operationLocation = Handle(Len(jobs) + 1),
                                                   !.attempts = 0, !.status = "running"])]
         ELSE /\ uploads' = [uploads EXCEPT ![s] =
                                RespondError(@, 500,
                                    IF kind = "error" THEN <<"upstream error">>
                                    ELSE NoOperationLocationMessage)]
              /\ UNCHANGED jobs
    /\ UNCHANGED <<now, env, payments, wh, deliveries, req, ui, access>>

\* Lines 39-47 for the request in slot s (as PollWake): the status query is
\* sent to the request's poll target and the service counts it for that job.
UploadPollWake(s) ==
    /\ uploads[s].pc = "sleeping"
    /\ uploads' = [uploads EXCEPT ![s] =
                      [@ EXCEPT !.pc = "awaitStatus", !.attempts = @ + 1, !.queries = @ + 1,
                                !.resultResponse = NoData,
                                !.elapsed = @ + POLLING_INTERVAL]]
    /\ LET k == JobOf(PollTarget(s)) IN
         jobs' = [jobs EXCEPT ![k].queries = @ + 1,
                              ![k].foreign = @ \/ jobs[k].owner # s]
    /\ UNCHANGED <<now, env, payments, wh, deliveries, req, ui, access>>

\* Lines 42-57 for the request in slot s (as StatusResponse, answered fast).
UploadStatusResponse(s, reply) ==
    /\ uploads[s].pc = "awaitStatus"
    /\ reply.kind = "data" /\ IsNonTerminal(reply.data.status)
          => uploads[s].attempts <= MaxRunningReplies
    /\ LET r == [uploads[s] EXCEPT !.elapsed = @ + MinLatency]
           result == AssignResult(r.result, reply.data)
       IN
         uploads' = [uploads EXCEPT ![s] =
                        IF reply.kind = "error"
                          THEN RespondError(r, 500, <<"upstream error">>)
                          ELSE PollLoop([r EXCEPT !.resultResponse = reply.data,
                                                  !.result = result,
                                                  !.status = result.status])]
    /\ UNCHANGED <<now, env, payments, wh, deliveries, req, jobs, ui, access>>

\* The response of the request in slot s has been sent and its locals, the
\* job handle among them, are gone.
UploadFinish(s) ==
    /\ uploads[s].pc = "done"
    /\ uploads' = [uploads EXCEPT ![s] = IdleRequest]
    /\ jobs' = [k \in 1..Len(jobs) |->
                   IF jobs[k].owner = s THEN [jobs[k] EXCEPT !.owner = "gone"] ELSE jobs[k]]
    /\ UNCHANGED <<now, env, payments, wh, deliveries, req, ui, access>>

\* Requests of callers with and without identity, side by side, on an empty
\* payments table.
InitUploads ==
    /\ now = 0
    /\ env \in [webhookSecret : {TRUE}, azure : {TRUE}]
    /\ payments = <<>>
    /\ wh = [h \in Handlers |-> IdleHandler]
    /\ deliveries = 0
    /\ req = IdleRequest
    /\ uploads = NoUploads
    /\ jobs = NoJobs
    /\ ui = IdleUi
    /\ access = IdleAccess

NextUploads ==
    \/ \E s \in UploadSlots, u \in Users \cup {NoUser}, f \in UploadFiles : UploadStart(s, u, f)
    \/ \E s \in UploadSlots : UploadAccessResult(s)
    \/ \E s \in UploadSlots, kind \in {"error", "noHeader", "accepted"} :
          UploadSubmitResponse(s, kind)
    \/ \E s \in UploadSlots : UploadPollWake(s)
    \/ \E s \in UploadSlots, reply \in UploadReplies : UploadStatusResponse(s, reply)
    \/ \E s \in UploadSlots : UploadFinish(s)

SpecUploads == InitUploads /\ [][NextUploads]_vars

----------------------------------------------------------------------------
(* Entitlement grant *)

RowsOfSession(rows, s) == SelectSeq(rows, LAMBDA r : r.stripeSessionId = s)

IsGrantEvent(e) == e.type = "checkout.session.completed" /\ e.userId # NoUser

\* C1: under any interleaving of webhook handlers that carry the same session
\* id and a user id, at most one payment row with that session id exists in
\* every reachable state, also when both handlers ran their select before
\* either ran its insert.
C1_AtMostOnePerSession ==
    \A s \in Sessions : Len(RowsOfSession(payments, s)) <= 1

\* Both handlers passed the select for the same session before either
\* inserted, and both inserts have since been resolved.
C1_RaceResolved ==
    \E g, h \in Handlers :
        /\ g # h
        /\ wh[g].pc = "acked" /\ wh[g].log = "access granted"
        /\ wh[h].pc = "crashed"
        /\ wh[g].event.sid = wh[h].event.sid
        /\ Len(RowsOfSession(payments, wh[g].event.sid)) = 1

\* C2: a handler that has finished a payment-completion event with a user id
\* leaves exactly one row for the event's session id, and a row once written
\* for a session id is never changed or joined by another: after a replay the
\* row's user and expiry are those of the first delivery.
C2_ReplayIdempotent ==
    /\ [](\A h \in Handlers :
            (wh[h].pc = "acked" /\ IsGrantEvent(wh[h].event))
                => Len(RowsOfSession(payments, wh[h].event.sid)) = 1)
    /\ [][\A s \in Sessions :
            RowsOfSession(payments, s) # <<>>
                => RowsOfSession(payments', s) = RowsOfSession(payments, s)]_vars

\* A replay that found the first delivery's row, at a time when a fresh grant
\* would have written a later expiry.
C2_ReplayShortCircuited ==
    \E h \in Handlers :
        /\ wh[h].pc = "acked" /\ wh[h].log = "already processed"
        /\ \E i \in 1..Len(payments) :
              /\ payments[i].stripeSessionId = wh[h].event.sid
              /\ payments[i].userId = wh[h].event.userId
              /\ payments[i].expiresAt < GrantExpiry(now)
        /\ \A g \in Handlers : HandlerFree(g)

----------------------------------------------------------------------------
(* The access gate of POST /api/ocr *)

\* The request has reached processing: a submit was sent, text was returned,
\* or the file was inspected.
Dispatched(r) ==
    \/ r.submits > 0
    \/ r.resp.kind = "text"
    \/ r.pc = "done" /\ r.resp.status # 403

\* An entitlement of user u whose expiry is later than t.
LiveEntitlement(rows, u, t) ==
    \E i \in 1..Len(rows) : rows[i].userId = u /\ rows[i].expiresAt > t

\* The step in which the access query of the request is answered.
AccessAnswered == req.pc = "awaitAccess" /\ req'.pc # "awaitAccess"

\* C3: an upload is dispatched to OCR processing only if the caller is
\* authenticated and holds an entitlement with expiry in the future; stated
\* for the two forms of processing that leave the server or reach the caller,
\* the outbound submit and the returned text.
C3_RequiresAuthAndPaidAccess ==
    (req.submits > 0 \/ req.resp.kind = "text")
        => (IsAuthenticated(req) /\ req.hasAccess = "yes")

Granted(rows, u, t) ==
    \E validPayments \in QueryResults(ValidPayments(rows, u, t)) :
        hasValidAccess(validPayments)

RowsOfUser(rows, u) == SelectSeq(rows, LAMBDA r : r.userId = u)

\* C5: for an authenticated user whose only entitlement has expiry E, a
\* request evaluated at time t is granted exactly when t < E (at t = E it is
\* denied), and on an unchanged table a request denied at some time is denied
\* at every later time.
C5_MonotonicInTime ==
    /\ [](\A u \in Users : \A t1, t2 \in Times :
            (t1 <= t2 /\ ~Granted(payments, u, t1)) => ~Granted(payments, u, t2))
    /\ [][AccessAnswered
            => LET mine == RowsOfUser(payments, req.user) IN
               Len(mine) = 1
                 => ((req'.hasAccess = "yes") <=> (req.gateNow < mine[1].expiresAt))]_vars

\* A request evaluated at exactly the expiry of the user's only record is denied.
C5_DeniedAtExpiry ==
    /\ req.pc = "done" /\ req.resp.status = 403 /\ req.hasAccess = "no"
    /\ Len(RowsOfUser(payments, req.user)) = 1
    /\ RowsOfUser(payments, req.user)[1].expiresAt = req.gateNow
    /\ req.gateNow > 0

----------------------------------------------------------------------------
(* pollForResult *)

InPoll(r) == r.pc \in {"sleeping", "awaitStatus"}

\* The step in which a status query of the request is answered or fails.
StatusAnswered == req.pc = "awaitStatus" /\ req'.pc # "awaitStatus"

\* What the handler answers for a payload that pollForResult returned.
TextOf(data) ==
    LET text == extractTextFromResult(data).text IN
    IF Len(text) = 0 THEN NoTextMessage ELSE text

\* C6: on the first status response equal to 'succeeded' the loop stops: the
\* response's payload is what is returned (the answer is 200 with the text of
\* that payload) and no further status query is issued, after any number of
\* non-terminal responses below the attempt bound.
C6_StopsOnSucceeded ==
    /\ [](req.status = "succeeded" => req.pc = "done")
    /\ [][(StatusAnswered /\ req'.resultResponse.status = "succeeded")
            => /\ req'.pc = "done"
               /\ req'.result = req'.resultResponse
               /\ req'.resp.status = 200
               /\ req'.resp.text = TextOf(req'.resultResponse)
               /\ req'.queries = req.queries]_vars
    /\ [][req.status = "succeeded" /\ req'.pc # "idle" => req'.queries = req.queries]_vars

\* The 120th response is the first 'succeeded' one and its text is returned.
C6_SucceededAtLastAttempt ==
    /\ req.pc = "done" /\ req.status = "succeeded"
    /\ req.attempts = MAX_POLLING_ATTEMPTS
    /\ req.resp.status = 200
    /\ req.resp.text = <<"Hello", "\n", "World", "\n", "\n", "Done">>

TimedOut(r) == r.pc = "done" /\ r.resp.status = 500 /\ r.resp.message = TimeoutMessage

\* Position of the loop: grows with every step the loop takes.
PollMeasure(r) == 2 * r.attempts + (IF r.pc = "sleeping" THEN 1 ELSE 0)

\* C7: at most MAX_POLLING_ATTEMPTS status queries are issued for a job; the
\* timeout error is given exactly when all of them were answered with a
\* non-terminal status; a terminal status in the last answer is honoured; and
\* every step of the loop either ends it or advances it towards the bound.
C7_Bounded ==
    /\ [](req.queries <= MAX_POLLING_ATTEMPTS /\ req.queries = req.attempts)
    /\ [](TimedOut(req)
            <=> (/\ req.pc = "done"
                 /\ req.queries = MAX_POLLING_ATTEMPTS
                 /\ req.resultResponse.status \in {"running", "notStarted"}))
    /\ []((req.pc = "done" /\ req.resultResponse.status = "succeeded")
            => req.resp.status = 200)
    /\ [][(StatusAnswered /\ InPoll(req'))
            => req'.resultResponse.status \in {"running", "notStarted"}]_vars
    /\ [][(InPoll(req) /\ req' # req)
            => (~InPoll(req') \/ PollMeasure(req') > PollMeasure(req))]_vars

\* The loop ran to the bound and gave the timeout error.
C7_TimedOutAtBound ==
    TimedOut(req) /\ req.queries = MAX_POLLING_ATTEMPTS

\* C8: a status response whose status is none of 'succeeded', 'running',
\* 'notStarted' (also 'failed', also no status field) ends the poll with the
\* error that names the status: no payload is returned, no text is produced,
\* no further query is issued.
C8_FailsOnOtherStatus ==
    [][(/\ StatusAnswered
        /\ req'.resultResponse # NoData
        /\ req'.resultResponse.status \notin {"succeeded", "running", "notStarted"})
         => /\ req'.pc = "done"
            /\ req'.resp.status = 500
            /\ req'.resp.message = FailedMessage(req'.resultResponse.status)
            /\ req'.resp.kind # "text"
            /\ req'.queries = req.queries]_vars

\* A response without a status field ended the poll.
C8_FailedOnMissingStatus ==
    /\ req.pc = "done" /\ req.resultResponse.status = Undefined
    /\ req.resp.message = FailedMessage(Undefined)
    /\ req.attempts > 1

PollStarted(r) == r.operationLocation # "none"

EndedEarly(r) == PollStarted(r) /\ r.pc = "done" /\ r.attempts < MAX_POLLING_ATTEMPTS

EndedBySucceeded(r) == r.resp.status = 200 /\ r.resultResponse.status = "succeeded"

EndedByFailureStatus(r) ==
    /\ r.resultResponse # NoData
    /\ r.resultResponse.status \notin {"succeeded", "running", "notStarted"}
    /\ r.resp.message = FailedMessage(r.resultResponse.status)

EndedByRequestError(r) == r.resultResponse = NoData /\ r.resp.message = <<"upstream error">>

\* C9 as stated: a started poll loop ends before the attempt bound only by a
\* 'succeeded' response or by a terminal failure status.
C9_OnlySuccessOrFailureStatus ==
    EndedEarly(req) => (EndedBySucceeded(req) \/ EndedByFailureStatus(req))

\* C9 as amended: a started poll loop ends before the attempt bound only by a
\* 'succeeded' response, by a terminal failure status, or by a status request
\* that throws; time passing (an entitlement expiring) and the client going
\* away leave the loop where it is.
C9_NoCancellation ==
    /\ [](EndedEarly(req)
            => (EndedBySucceeded(req) \/ EndedByFailureStatus(req)
                  \/ EndedByRequestError(req)))
    /\ [][(InPoll(req) /\ (now' # now \/ req'.connected # req.connected))
            => (InPoll(req') /\ req'.pc = req.pc /\ req'.attempts = req.attempts)]_vars

\* The caller's entitlement has expired and the client is gone, and the loop
\* is still polling.
C9_PollingAfterExpiryAndDisconnect ==
    /\ InPoll(req) /\ req.attempts > 0
    /\ req.hasAccess = "yes" /\ ~req.connected
    /\ ~LiveEntitlement(payments, req.user, now)

\* C10: no execution of pollForResult lasts longer than
\* MAX_POLLING_ATTEMPTS x POLLING_INTERVAL, the time of the status requests
\* included.
C10_WithinAttemptsTimesDelay ==
    req.elapsed <= MAX_POLLING_ATTEMPTS * POLLING_INTERVAL

----------------------------------------------------------------------------
(* The result normalizer *)

\* The pages extractTextFromResult iterates over.
PagesOf(result) == IF result.hasResults THEN result.readResults ELSE <<>>

LinesOf(page) == IF page.hasLines THEN page.lines ELSE <<>>

\* The lines of a page joined by a line break.
RECURSIVE JoinLines(_)
JoinLines(lines) ==
    IF lines = <<>> THEN <<>>
    ELSE IF Len(lines) = 1 THEN Head(lines).text
    ELSE Head(lines).text \o <<"\n">> \o JoinLines(Tail(lines))

\* The pages joined by a blank line.
RECURSIVE JoinPages(_)
JoinPages(pages) ==
    IF pages = <<>> THEN <<>>
    ELSE IF Len(pages) = 1 THEN JoinLines(LinesOf(Head(pages)))
    ELSE JoinLines(LinesOf(Head(pages))) \o <<"\n", "\n">> \o JoinPages(Tail(pages))

ReferenceNormalizer(result) ==
    [text |-> Trim(JoinPages(PagesOf(result))), pages |-> Len(PagesOf(result))]

\* C11: for every nested page/line input, pages with zero lines and lines
\* with whitespace at either end included, extractTextFromResult gives the
\* text of the reference normalizer (trim of the pages joined by a blank line,
\* each page being its lines joined by a line break) and the number of pages.
C11_EqualsReferenceNormalizer ==
    req.pc = "extracted"
        => /\ req.resp.text = ReferenceNormalizer(req.result).text
           /\ req.resp.pages = ReferenceNormalizer(req.result).pages

\* The payload with every page that has no `lines` field given an empty one.
WithEmptyLines(result) ==
    [result EXCEPT !.readResults =
        [i \in 1..Len(result.readResults) |-> Page(LinesOf(result.readResults[i]))]]

\* C12: the normalizer is pure and tolerant of absent input: a second call on
\* the same payload gives the same text and count, no call changes the
\* payload, a payload without analyzeResult.readResults or with an empty list
\* gives the empty text and count 0, and a page without a `lines` field is
\* handled as a page with zero lines and counted.
C12_PureAndTolerant ==
    /\ [](req.pc \in {"extracted", "extractedAgain"}
            => /\ PagesOf(req.result) = <<>>
                    => (req.resp.text = <<>> /\ req.resp.pages = 0)
               /\ req.resp.pages = Len(PagesOf(req.result))
               /\ req.resp.text = extractTextFromResult(WithEmptyLines(req.result)).text
               /\ req.resp.pages = extractTextFromResult(WithEmptyLines(req.result)).pages)
    /\ [][req.pc \in {"extract", "extracted"}
            => /\ req'.result = req.result
               /\ req.pc = "extracted" => req'.resp = req.resp]_vars

\* The function was called twice on a payload whose middle page has no
\* `lines` field and whose other pages have text.
C12_CalledTwiceWithBarePage ==
    /\ req.pc = "extractedAgain"
    /\ Len(PagesOf(req.result)) = 3
    /\ ~req.result.readResults[2].hasLines
    /\ req.resp.pages = 3
    /\ req.resp.text = <<"Hello", "\n", "\n", "\n", " ", "World">>

----------------------------------------------------------------------------
(* Dispatch by media type *)

\* C13 as stated: the submit request of an upload carries a Content-Type
\* equal to the upload's declared media type.
C13_ContentTypeIsDeclaredType ==
    req.submits > 0 => req.contentType = req.file.mimetype

\* C13 as amended: only PDF and image uploads are submitted; a PDF is sent as
\* application/pdf and an image of any accepted type as
\* application/octet-stream.
C13_ContentTypePerFormat ==
    req.submits > 0
        => /\ req.submits = 1
           /\ req.file.mimetype \in {"application/pdf"} \cup ImageTypes
           /\ req.contentType = IF req.file.mimetype = "application/pdf"
                                   THEN "application/pdf"
                                   ELSE "application/octet-stream"

\* A PNG upload has been submitted.
C13_PngSubmitted ==
    /\ req.pc = "awaitSubmit"
    /\ req.file.mimetype = "image/png"
    /\ req.contentType = "application/octet-stream"

\* The media types the claim names as accepted.
AcceptedTypes ==
    {"application/pdf", "image/png", "image/jpeg", "image/jpg", "text/plain"}

Unsupported(r) == r.file # NoFile /\ r.file.mimetype \notin AcceptedTypes

\* C14 as stated: every upload of a media type outside the accepted ones is
\* answered 400 with the message that lists the accepted types.
C14_UnsupportedAnswered400 ==
    (Unsupported(req) /\ req.pc = "done")
        => (req.resp.status = 400 /\ req.resp.message = UnsupportedMessage)

\* C14 as amended: for an upload of a media type outside the accepted ones no
\* submit and no status query is ever sent and no text is returned; the
\* upload is answered 403 if the access gate denies the caller and otherwise
\* 400 with the message that lists the accepted types, as soon as the gate is
\* passed.
C14_UnsupportedRejectedPastGate ==
    /\ [](Unsupported(req)
            => /\ req.submits = 0 /\ req.queries = 0 /\ req.resp.kind # "text"
               /\ req.pc \in {"awaitAccess", "done"}
               /\ req.pc = "done"
                    => IF req.hasAccess = "no"
                         THEN req.resp.status = 403
                         ELSE /\ req.resp.status = 400
                              /\ req.resp.message = UnsupportedMessage)
    /\ [][(AccessAnswered /\ Unsupported(req) /\ req'.hasAccess = "yes")
            => (req'.pc = "done" /\ req'.resp.status = 400)]_vars

\* A caller with a live entitlement uploaded an archive and was answered 400.
C14_EntitledCallerRejected ==
    /\ req.pc = "done" /\ req.hasAccess = "yes"
    /\ req.file.mimetype = "application/zip"
    /\ req.resp.status = 400 /\ req.resp.message = UnsupportedMessage
    /\ req.submits = 0

\* C15: a plain-text upload that has passed the access gate is answered
\* without a submit or a status query, and the text of the answer is the
\* UTF-8 decoding of the uploaded bytes, whatever the bytes are.
C15_PlainTextReturnedDecoded ==
    (req.file.mimetype = "text/plain" /\ req.pc = "done" /\ req.hasAccess # "no")
        => /\ req.submits = 0 /\ req.queries = 0
           /\ req.resp.status = 200
           /\ req.resp.text = Utf8Decode(req.file.buffer)

\* The step in which the submit call of the request is answered or fails.
SubmitAnswered == req.pc = "awaitSubmit" /\ req'.pc # "awaitSubmit"

\* C16: a submit response without an operation-location header ends the
\* upload with a 500 error that names the missing handle; no status query is
\* sent and no text is returned, and a request that holds no handle is never
\* inside the poll loop; for PDF and for image uploads alike.
C16_MissingHandleFails ==
    /\ [](req.operationLocation = "none"
            => (req.queries = 0 /\ req.attempts = 0 /\ ~InPoll(req)
                  /\ (req.submits > 0 => req.resp.kind # "text")))
    /\ [][(SubmitAnswered /\ req'.operationLocation = "none")
            => /\ req'.pc = "done"
               /\ req'.resp.status = 500 /\ req'.resp.kind = "error"
               /\ req'.queries = 0]_vars
    /\ [][\A reply \in SubmitReplies :
            (reply.kind = "noHeader" /\ SubmitResponse(reply))
                => /\ req'.resp.status = 500
                   /\ req'.resp.message = NoOperationLocationMessage
                   /\ req'.operationLocation = "none"
                   /\ req.file.mimetype \in {"application/pdf"} \cup ImageTypes]_vars

\* An image upload was submitted and answered without a handle.
C16_ImageWithoutHandle ==
    /\ req.pc = "done" /\ req.file.mimetype = "image/jpeg"
    /\ req.submits = 1 /\ req.queries = 0
    /\ req.resp.status = 500 /\ req.resp.message = NoOperationLocationMessage

----------------------------------------------------------------------------
(* The webhook's answers *)

\* The request does not pass verification: no signature header, no secret
\* configured, no raw body, or a signature that does not verify.
Unverified(d) == ~d.sig \/ ~env.webhookSecret \/ ~d.rawBody \/ ~d.sigValid

\* C17: a webhook request that does not pass verification is answered 400
\* and its handler ends there, holding nothing of the payload; the payments
\* table is the same after the request, and it changes only by the insert of
\* a handler that holds a verified event.
C17_UnverifiedRejected ==
    /\ [](\A h \in Handlers :
            wh[h].pc = "rejected"
                => (wh[h].status = 400 /\ wh[h].event = NoEvent /\ wh[h].row = NoRow))
    /\ [](~env.webhookSecret => payments = <<>>)
    /\ [][\A h \in Handlers : \A d \in Deliveries :
            (Unverified(d) /\ WebhookReceive(h, d))
                => /\ wh'[h].pc = "rejected" /\ wh'[h].status = 400
                   /\ wh'[h].event = NoEvent
                   /\ payments' = payments]_vars
    /\ [][payments' # payments
            => \E h \in Handlers :
                  /\ wh[h].pc = "awaitInsert" /\ IsGrantEvent(wh[h].event)
                  /\ payments' = Append(payments, wh[h].row)]_vars

\* A request was rejected after another delivery had been granted, and the
\* table holds the granted row alone.
C17_RejectedBesideGrant ==
    \E g, h \in Handlers :
        /\ wh[h].pc = "rejected" /\ wh[h].status = 400
        /\ wh[g].pc = "acked" /\ wh[g].log = "access granted"
        /\ deliveries = MaxDeliveries
        /\ Len(payments) = 1

\* C18: a verified payment-completion event without a user id in its metadata
\* is acknowledged with 200 at once and writes nothing; the same holds for a
\* verified event of another type. Only a completion event with a user id
\* reaches the table, and every row carries a user id.
C18_NoUserOrOtherTypeIsNoOp ==
    /\ [](\A h \in Handlers :
            /\ (wh[h].pc = "acked" /\ ~IsGrantEvent(wh[h].event))
                  => (wh[h].status = 200 /\ wh[h].log = "none" /\ wh[h].row = NoRow)
            /\ wh[h].pc \in {"awaitSelect", "awaitInsert"} => IsGrantEvent(wh[h].event))
    /\ [](\A i \in 1..Len(payments) : payments[i].userId \in Users)
    /\ [][\A h \in Handlers : \A d \in Deliveries :
            (~Unverified(d) /\ ~IsGrantEvent(d.event) /\ WebhookReceive(h, d))
                => /\ wh'[h].pc = "acked" /\ wh'[h].status = 200
                   /\ wh'[h].event = d.event
                   /\ payments' = payments]_vars

\* A completion event without a user id and an event of another type have
\* both been acknowledged, and the table is empty.
C18_BothAcknowledgedNoRecord ==
    \E g, h \in Handlers :
        /\ wh[g].pc = "acked" /\ wh[g].status = 200
        /\ wh[g].event.type = "checkout.session.completed" /\ wh[g].event.userId = NoUser
        /\ wh[h].pc = "acked" /\ wh[h].status = 200
        /\ wh[h].event.type = "other"
        /\ payments = <<>>

\* C19: a handler whose request passed verification and that waits for the
\* storage layer is eventually at the acknowledgement, whatever the storage
\* layer answers.
C19_AlwaysAcknowledged ==
    \A h \in Handlers :
        (wh[h].pc \in {"awaitSelect", "awaitInsert"}) ~> (wh[h].pc = "acked")

----------------------------------------------------------------------------
(* Entitlement records *)

\* C20: the row a handler builds has expiry equal to the time the handler
\* reads plus the grant period of one day, which is later than that time; the
\* row is inserted as built; every row of the table has the expiry of a time
\* already read plus one day; and every step leaves the rows already in the
\* table where and as they are.
C20_ExpiryIsNowPlusOneDay ==
    /\ [][\A h \in Handlers :
            (wh[h].pc = "awaitSelect" /\ wh'[h].pc = "awaitInsert")
                => /\ wh'[h].row.expiresAt = now + GRANT_DAYS * TicksPerDay
                   /\ wh'[h].row.expiresAt > now]_vars
    /\ [][\A h \in Handlers :
            (wh[h].pc = "awaitInsert" /\ wh'[h].pc = "acked")
                => payments' = Append(payments, wh[h].row)]_vars
    /\ [](\A i \in 1..Len(payments) :
            (payments[i].expiresAt - GRANT_DAYS * TicksPerDay) \in 0..now)
    /\ [][/\ Len(payments') >= Len(payments)
          /\ SubSeq(payments', 1, Len(payments)) = payments]_vars

\* Two records granted at different times are in the table, the later one
\* inserted a tick after its handler read the clock.
C20_TwoGrantsApart ==
    /\ Len(payments) = 2
    /\ payments[1].expiresAt < payments[2].expiresAt
    /\ payments[2].expiresAt = (now - 1) + GRANT_DAYS * TicksPerDay
    /\ now = MaxTime

----------------------------------------------------------------------------
(* The combine utility *)

\* The text the claim describes for the first k files of a list: the content
\* of each, the separator between two consecutive ones.
RECURSIVE CombinedUpTo(_, _)
CombinedUpTo(files, k) ==
    IF k = 0 THEN <<>>
    ELSE IF k = 1 THEN files[1].content
    ELSE CombinedUpTo(files, k - 1) \o <<Separator>> \o files[k].content

CombinedOf(files) == CombinedUpTo(files, Len(files))

CombineStarted == ui.run.pc = "idle" /\ ui'.run.pc = "reading"

CombineSucceeded ==
    ui.run.pc = "reading" /\ ui'.run.pc = "idle" /\ ui'.toast = "Files combined"

\* C21: a run of handleCombineFiles works on the list as the user had it at
\* the click, reads its files one at a time in list order, and on success
\* stores the contents in that order with the separator between consecutive
\* files and nowhere else.
C21_CombinedInListOrder ==
    /\ [][CombineStarted => ui'.run.files = ui.txtFiles]_vars
    /\ [](ui.run.pc = "reading"
            => /\ Len(ui.run.contents) < Len(ui.run.files)
               /\ \A i \in 1..Len(ui.run.contents) :
                     ui.run.contents[i] = ui.run.files[i].content)
    /\ [][(ui.run.pc = "reading" /\ ui'.run.pc = "reading")
            => /\ ui'.run.files = ui.run.files
               /\ Len(ui'.run.contents) \in {Len(ui.run.contents), Len(ui.run.contents) + 1}]_vars
    /\ [][CombineSucceeded => ui'.combinedText = CombinedOf(ui.run.files)]_vars

\* The list B, A, C was combined.
C21_CombinedBAC ==
    /\ ui.toast = "Files combined"
    /\ ui.txtFiles = <<TxtFile("B"), TxtFile("A"), TxtFile("C")>>
    /\ ui.combinedText = <<"text of ", "B", Separator, "text of ", "A", Separator,
                           "text of ", "C">>

CombineFailed ==
    ui.run.pc = "reading" /\ ui'.run.pc = "idle" /\ ui'.toast # "Files combined"

\* C22: a read that fails ends the run at once: the remaining files are not
\* read, the error toast is raised, isCombining is false again (it is true
\* exactly while a run is reading), and the combined text is what it was: no
\* step of a run but its successful end writes it.
C22_FailedReadAborts ==
    /\ [][CombineFailed
            => /\ ui'.combinedText = ui.combinedText
               /\ ui'.toast = "Error combining files"
               /\ ~ui'.isCombining
               /\ ui'.run = IdleRun
               /\ Len(ui.run.contents) < Len(ui.run.files)]_vars
    /\ [][(ui'.run # ui.run /\ ~CombineSucceeded)
            => ui'.combinedText = ui.combinedText]_vars
    /\ [](ui.isCombining <=> ui.run.pc = "reading")

\* A second combination of a list of two failed and the text of the first
\* one is still there.
C22_FailedWithEarlierText ==
    /\ ui.toast = "Error combining files"
    /\ ~ui.isCombining
    /\ Len(ui.txtFiles) = 2
    /\ ui.combinedText = CombinedOf(ui.txtFiles)

\* The list with the entry at position `from` taken out and put in at `to`.
MovedTo(list, from, to) == InsertAt(RemoveAt(list, from), to, At(list, from))

\* C23: during a drag that started on the entry at index a, after drag-over
\* events at any positions, the entry that was at a is at the position of the
\* last one, the other entries are in their old relative order, and
\* draggedIndex is that position; also when drag-over events are handled
\* without a render between them.
C23_DraggedEntryAtLastPosition ==
    ui.dragging
        => /\ ui.draggedIndex \in Indices(ui.txtFiles)
           /\ ui.txtFiles = MovedTo(ui.dragFrom.txtFiles, ui.dragFrom.index, ui.draggedIndex)

\* The list `after` is `before` with the entries at the array positions i and
\* i + 1 exchanged.
Exchanged(before, after, i) ==
    /\ Len(after) = Len(before)
    /\ after[i + 1] = before[i + 2] /\ after[i + 2] = before[i + 1]
    /\ \A k \in 1..Len(before) : k \notin {i + 1, i + 2} => after[k] = before[k]

\* The list `after` is `before` without the entry at the array position i.
Deleted(before, after, i) ==
    /\ Len(after) = Len(before) - 1
    /\ \A k \in 1..Len(after) : after[k] = IF k <= i THEN before[k] ELSE before[k + 1]

\* The list `after` is `before` followed by those of `files` whose name ends
\* in '.txt', in their order.
Appended(before, after, files) ==
    LET added == SubSeq(after, Len(before) + 1, Len(after)) IN
    /\ Len(after) >= Len(before)
    /\ SubSeq(after, 1, Len(before)) = before
    /\ added = SelectSeq(files, LAMBDA f : f.name[Len(f.name)] = ".txt")

\* C26: moveFileUp(i) exchanges the entries at i - 1 and i for 0 < i < n and
\* changes nothing for i = 0; moveFileDown(i) exchanges the entries at i and
\* i + 1 for i < n - 1 and leaves the list as it is for i = n - 1;
\* removeFile(i) deletes the entry at i and no other; the file dialog and the
\* drop zone append the chosen '.txt' files at the end and leave the entries
\* already there in place.
C26_ListEdits ==
    /\ [][\A i \in 0..(MaxFiles - 1) :
            moveFileUp(i)
                => IF i > 0 THEN Exchanged(ui.txtFiles, ui'.txtFiles, i - 1)
                   ELSE ui'.txtFiles = ui.txtFiles /\ ui'.combinedText = ui.combinedText]_vars
    /\ [][\A i \in 0..(MaxFiles - 1) :
            moveFileDown(i)
                => IF i < Len(ui.txtFiles) - 1 THEN Exchanged(ui.txtFiles, ui'.txtFiles, i)
                   ELSE ui'.txtFiles = ui.txtFiles]_vars
    /\ [][\A i \in 0..(MaxFiles - 1) :
            removeFile(i) => Deleted(ui.txtFiles, ui'.txtFiles, i)]_vars
    /\ [][\A files \in Picked :
            (handleTxtFilesChange(files) \/ handleTxtDrop(files))
                => Appended(ui.txtFiles, ui'.txtFiles, files)]_vars

\* C comes before A in the list, a file without the '.txt' ending was just
\* skipped, and the list is full.
C26_EditedList ==
    /\ ui.toast = "Some files skipped"
    /\ Len(ui.txtFiles) = MaxFiles
    /\ ui.txtFiles[1] = TxtFile("C") /\ ui.txtFiles[2] = TxtFile("A")
    /\ ui.txtFiles[MaxFiles] = TxtFile("B")

\* C27: in every state a combined text that is not empty is the join, with
\* the separator, of the contents of the list as it is now and in its order
\* now, whatever edits of the list ran beside a combination in progress and
\* whatever drag-over events came before the drag's end.
C27_CombinedTextIsOfCurrentList ==
    ui.combinedText # <<>> => ui.combinedText = CombinedOf(ui.txtFiles)

\* C24: a job handle serves one poll sequence only. Every status query a job
\* receives comes from the request that submitted it; a request submits at
\* most once and polls the one job created for it, whose query count is the
\* request's own; concurrent requests hold different handles; and a job whose
\* request has been answered is never queried again.
JobsOf(s) == {k \in 1..Len(jobs) : jobs[k].owner = s}

C24_HandleServesOnePollSequence ==
    /\ [](\A k \in 1..Len(jobs) : ~jobs[k].foreign)
    /\ [](\A k, l \in 1..Len(jobs) : jobs[k].handle = jobs[l].handle => k = l)
    /\ [](\A s \in UploadSlots :
            /\ uploads[s].submits <= 1
            /\ uploads[s].pc \in {"awaitSubmit", "sleeping", "awaitStatus"}
                  => uploads[s].submits = 1
            /\ uploads[s].operationLocation = "none" => JobsOf(s) = {}
            /\ uploads[s].operationLocation # "none" =>
                  /\ JobsOf(s) = {JobOf(uploads[s].operationLocation)}
                  /\ jobs[JobOf(uploads[s].operationLocation)].queries = uploads[s].queries)
    /\ [](\A s, t \in UploadSlots :
            s # t /\ uploads[s].operationLocation # "none"
               => uploads[s].operationLocation # uploads[t].operationLocation)
    /\ [][\A k \in 1..Len(jobs) : jobs[k].owner = "gone" => jobs'[k] = jobs[k]]_vars

\* Two requests are polling at once, each its own job, both queried, after
\* an earlier job was finished.
C24_TwoPollingAfterOneDone ==
    /\ Len(jobs) = 3
    /\ jobs[1].owner = "gone" /\ jobs[1].queries > 0
    /\ \A s \in UploadSlots : uploads[s].pc = "awaitStatus" /\ uploads[s].attempts = 2
    /\ uploads["r1"].operationLocation = Handle(3)
    /\ uploads["r2"].operationLocation = Handle(2)

\* C25: every upload request receives exactly one response whose status
\* reflects the failure class (400 no file or unsupported type, 403 gate
\* denial, 500 submit failure, missing handle, failed or timed-out poll,
\* throwing status request, 200 with text and page count otherwise), and no
\* failed request returns text.
GateDenied(r) == r.hasAccess = "no"

\* The gate's query did not come back.
GateFailed(r) == IsAuthenticated(r) /\ r.hasAccess = "unchecked"

BadInput(r) ==
    /\ ~GateDenied(r) /\ ~GateFailed(r)
    /\ r.file = NoFile \/ r.file.mimetype \notin AcceptedTypes

UpstreamFailed(r) ==
    /\ r.submits = 1
    /\ \/ r.operationLocation = "none"
       \/ r.resultResponse = NoData
       \/ r.status # "succeeded"

StatusReflectsFailureClass ==
    req.pc = "done" =>
       /\ req.resp.status \in {200, 400, 403, 500}
       /\ GateDenied(req) <=> req.resp.status = 403
       /\ BadInput(req) <=> req.resp.status = 400
       /\ UpstreamFailed(req) => req.resp.status = 500
       /\ req.resp.status = 200 =>
             /\ ~GateDenied(req) /\ ~BadInput(req) /\ ~UpstreamFailed(req)
             /\ req.resp.kind = "text" /\ Len(req.resp.text) > 0 /\ req.resp.pages >= 0
       /\ req.resp.status # 200 =>
             req.resp.kind = "error" /\ req.resp.text = <<>> /\ Len(req.resp.message) > 0

C25_ExactlyOneResponsePerRequest ==
    /\ []StatusReflectsFailureClass
    /\ [][req.resp # NoResponse => req' = IdleRequest]_vars
    /\ [](req.pc \notin {"idle", "done"} => <>(req.pc = "done"))

\* C28: the access-status endpoint agrees with the gate of the upload
\* endpoint. For an authenticated user the answer is 200 and reports
\* hasAccess exactly when the gate's query at the same time on the same table
\* lets the user pass, and so agrees with the decision of an upload gated at
\* that time; a reported expiresAt is the expiry of one of the user's rows
\* and later than the time of the request, and none is reported without
\* access; a caller without identity gets 401 and nothing else.
GatePasses(userId, t) ==
    \A validPayments \in QueryResults(ValidPayments(payments, userId, t)) :
       hasValidAccess(validPayments)

C28_StatusAgreesWithGate ==
    access.pc = "done" =>
       /\ access.resp.status = 401 <=> access.user = NoUser
       /\ access.resp.status = 200 <=> access.user # NoUser
       /\ access.user = NoUser =>
             /\ ~access.resp.hasAccess /\ access.resp.expiresAt = Null
             /\ access.seen = <<>>
       /\ access.user # NoUser =>
             /\ access.resp.hasAccess <=> GatePasses(access.user, access.now)
             /\ req.hasAccess # "unchecked" /\ req.user = access.user
                   /\ req.gateNow = access.now
                   => (access.resp.hasAccess <=> req.hasAccess = "yes")
             /\ access.resp.hasAccess =>
                   \E i \in 1..Len(payments) :
                      /\ payments[i].userId = access.user
                      /\ payments[i].expiresAt > access.now
                      /\ access.resp.expiresAt = toISOString(payments[i].expiresAt)
             /\ ~access.resp.hasAccess => access.resp.expiresAt = Null

\* A user with two live rows passes the gate and is told the expiry of the
\* row inserted second, which is the earlier of the two.
C28_GrantedWithSecondRowsExpiry ==
    /\ access.pc = "done" /\ req.pc = "done"
    /\ access.user = "u1" /\ req.user = "u1" /\ req.gateNow = access.now
    /\ req.hasAccess = "yes" /\ access.resp.hasAccess
    /\ Len(payments) = 2 /\ payments[1].userId = "u1" /\ payments[2].userId = "u1"
    /\ payments[1].expiresAt > payments[2].expiresAt
    /\ access.resp.expiresAt = toISOString(payments[2].expiresAt)

\* C29: entitlements are isolated per user. What the gate and the
\* access-status endpoint answer for user u at any time is what they answer
\* on the table reduced to the rows of u; a step that leaves the rows of u
\* alone (a grant or a replay for another user) changes none of these
\* answers; rows of u are inserted only by a handler processing a completed
\* checkout whose metadata names u; and a user without rows is denied, and
\* told no expiry, at every time.
AnswersFor(rows, u, t) ==
    [gate |-> Granted(rows, u, t),
     expiry |-> {getAccessExpiry(validPayments) :
                    validPayments \in QueryResults(ExpiryQuery(rows, u, t))}]

C29_IsolatedPerUser ==
    /\ [](\A u \in Users : \A t \in Times :
            AnswersFor(payments, u, t) = AnswersFor(RowsOfUser(payments, u), u, t))
    /\ [][\A u \in Users :
            payments' # payments /\ RowsOfUser(payments', u) = RowsOfUser(payments, u)
               => \A t \in Times : AnswersFor(payments', u, t) = AnswersFor(payments, u, t)]_vars
    /\ [][\A u \in Users :
            payments' # payments /\ RowsOfUser(payments', u) # RowsOfUser(payments, u)
               => \E h \in Handlers :
                     /\ wh[h].pc = "awaitInsert"
                     /\ wh[h].event.type = "checkout.session.completed"
                     /\ wh[h].event.userId = u]_vars
    /\ [](\A u \in Users :
            RowsOfUser(payments, u) = <<>>
               => \A t \in Times :
                     AnswersFor(payments, u, t) = [gate |-> FALSE, expiry |-> {Null}])

\* Two payments of u1 were processed and one was replayed; u1 is granted now
\* and u2, who has no row, is not.
C29_OneUserPaidTwice ==
    /\ Len(payments) = 2 /\ RowsOfUser(payments, "u1") = payments
    /\ \E h \in Handlers : wh[h].log = "already processed"
    /\ Granted(payments, "u1", now) /\ ~Granted(payments, "u2", now)
    /\ now > 0

\* C30: a 200 response never carries an empty text. When what was extracted
\* is empty (no pages, pages without lines, lines of whitespace only, an
\* empty plain-text file) the fixed message stands in its place, otherwise
\* the extracted text is returned; the page count is the normalizer's count
\* for a PDF and 1 for an image or a plain-text file.
Blank(chars) == \A i \in 1..Len(chars) : chars[i] \in Whitespace

NothingRecognised(result) ==
    \/ ~result.hasResults
    \/ \A i \in 1..Len(result.readResults) :
          LET page == result.readResults[i] IN
          page.hasLines => \A j \in 1..Len(page.lines) : Blank(page.lines[j].text)

NothingExtracted(r) ==
    IF r.file.mimetype = "text/plain"
      THEN Len(r.file.buffer) = 0
      ELSE NothingRecognised(r.result)

====
